---- MODULE Spec2Model ----
(***************************************************************************)
(* NSET v6.0 tokenizer (src/src/main.c, entropy model of                   *)
(* src/src/experimental/core_defs.h): the registry, the locked vocabulary, *)
(* the bigram model, the identifier segmenter, the arena with its symbol   *)
(* eater and the cursor loop of main.                                      *)
(*                                                                         *)
(* Bytes are their ASCII codes.  Source offsets are 0-based as in the C    *)
(* code; CodeAt(p) reads code[p].  A uint32_t is a pair <<hi, lo>> of       *)
(* 16-bit limbs (value hi * 65536 + lo), so that the full 32-bit range and *)
(* the wrapping multiply of the hash are exact.                            *)
(***************************************************************************)
EXTENDS Integers, Sequences, FiniteSets, TLC

(***************************************************************************)
(* <ctype.h> in the C locale                                               *)
(***************************************************************************)
isspace(c) == c \in {9, 10, 11, 12, 13, 32}
isupper(c) == c \in 65..90
islower(c) == c \in 97..122
isdigit(c) == c \in 48..57
ispunct(c) == c \in (33..47) \cup (58..64) \cup (91..96) \cup (123..126)
tolower(c) == IF isupper(c) THEN c + 32 ELSE c

(***************************************************************************)
(* Byte strings                                                            *)
(***************************************************************************)
\* s[from .. from+len) of a 0-based buffer held in a 1-based sequence
Slice(s, from, len) == SubSeq(s, from + 1, from + len)

LowerStr(s) == [i \in 1..Len(s) |-> tolower(s[i])]

\* strcmp(a, b): negative, zero or positive
RECURSIVE strcmp(_, _)
strcmp(a, b) ==
    IF a = << >> /\ b = << >> THEN 0
    ELSE IF a = << >> THEN -1
    ELSE IF b = << >> THEN 1
    ELSE IF Head(a) # Head(b) THEN Head(a) - Head(b)
    ELSE strcmp(Tail(a), Tail(b))

(***************************************************************************)
(* Locked vocabulary, in its declared order (main.c:115-124)               *)
(***************************************************************************)
LOCKED_VOCAB ==
    << <<97,117,116,111>>, <<98,114,101,97,107>>, <<99,97,115,101>>, <<99,104,97,114>>,
       <<99,111,110,115,116>>, <<99,111,110,116,105,110,117,101>>, <<100,101,102,97,117,108,116>>, <<100,111>>,
       <<100,111,117,98,108,101>>, <<101,108,115,101>>, <<101,110,117,109>>, <<101,120,116,101,114,110>>,
       <<102,108,111,97,116>>, <<102,111,114>>, <<103,111,116,111>>, <<105,102>>,
       <<105,110,116>>, <<108,111,110,103>>, <<114,101,103,105,115,116,101,114>>, <<114,101,116,117,114,110>>,
       <<115,104,111,114,116>>, <<115,105,103,110,101,100>>, <<115,105,122,101,111,102>>, <<115,116,97,116,105,99>>,
       <<115,116,114,117,99,116>>, <<115,119,105,116,99,104>>, <<116,121,112,101,100,101,102>>, <<117,110,105,111,110>>,
       <<117,110,115,105,103,110,101,100>>, <<118,111,105,100>>, <<118,111,108,97,116,105,108,101>>, <<119,104,105,108,101>>,
       <<100,101,102,105,110,101>>, <<105,110,99,108,117,100,101>>, <<105,102,100,101,102>>, <<105,102,110,100,101,102>>,
       <<101,110,100,105,102>>, <<112,114,105,110,116,102>>, <<109,97,108,108,111,99>>, <<102,114,101,101>>,
       <<115,105,122,101,95,116>>, <<117,105,110,116,51,50,95,116>>, <<117,105,110,116,56,95,116>>, <<117,105,110,116,49,54,95,116>>,
       <<78,85,76,76>>, <<116,114,117,101>>, <<102,97,108,115,101>>, <<98,111,111,108>>,
       <<102,105,108,101>>, <<112,97,116,104>>, <<98,117,102,102,101,114>>, <<108,101,110,103,116,104>>,
       <<99,111,117,110,116>>, <<111,102,102,115,101,116>>, <<100,97,116,97>>, <<110,111,100,101>>,
       <<116,114,101,101>>, <<112,97,114,115,101,114>>, <<99,117,114,115,111,114>>, <<114,111,111,116>> >>

\* vocab_cmp(key, &LOCKED_VOCAB[idx]): strcmp of the key with the entry
vocab_cmp(key, idx) == strcmp(key, LOCKED_VOCAB[idx + 1])

\* One probe of bsearch over the half-open range [l, u) of 0-based indices:
\* the next range, or found.
BsearchStep(key, l, u) ==
    LET idx == (l + u) \div 2
        c   == vocab_cmp(key, idx)
    IN  IF c < 0 THEN [found |-> FALSE, l |-> l, u |-> idx]
        ELSE IF c > 0 THEN [found |-> FALSE, l |-> idx + 1, u |-> u]
        ELSE [found |-> TRUE, l |-> l, u |-> u]

\* bsearch(key, LOCKED_VOCAB, 60, ...) # NULL
RECURSIVE bsearch(_, _, _)
bsearch(key, l, u) ==
    IF l >= u THEN FALSE
    ELSE LET r == BsearchStep(key, l, u)
         IN  IF r.found THEN TRUE ELSE bsearch(key, r.l, r.u)

\* is_word_locked(str, len), str being the len bytes themselves
is_word_locked(str) ==
    IF Len(str) >= 64 THEN FALSE
    ELSE bsearch(LowerStr(str), 0, Len(LOCKED_VOCAB))

(***************************************************************************)
(* 32-bit hash (main.c:139-143)                                            *)
(***************************************************************************)
RECURSIVE XorBits(_, _, _)
XorBits(a, b, n) ==
    IF n = 0 THEN 0
    ELSE (((a % 2) + (b % 2)) % 2) + 2 * XorBits(a \div 2, b \div 2, n - 1)

\* h ^= b for a byte b
XorByte(h, b) == << h[1], (h[2] \div 256) * 256 + XorBits(h[2] % 256, b, 8) >>

\* h *= 0x01000193 modulo 2^32; 0x01000193 = 2^24 + 403
MulPrime(h) ==
    LET lo403 == h[2] * 403
    IN  << (h[1] * 403 + (lo403 \div 65536) + (h[2] % 256) * 256) % 65536,
           lo403 % 65536 >>

\* 0x811c9dc5
HashBasis == << 33052, 40389 >>

\* the loop over the bytes of key from the hash value h0, left to right:
\* Fold[h, lo, hi] is the value after the bytes lo..hi from the value h
HashFrom(h0, key) ==
    LET Fold[h \in (0..65535) \X (0..65535), lo \in 1..(Len(key) + 1), hi \in 0..Len(key)] ==
            IF lo > hi THEN h
            ELSE IF lo = hi THEN MulPrime(XorByte(h, tolower(key[lo])))
            ELSE Fold[Fold[h, lo, (lo + hi) \div 2], (lo + hi) \div 2 + 1, hi]
    IN  Fold[h0, 1, Len(key)]

murmur_hash(key) == HashFrom(HashBasis, key)

(***************************************************************************)
(* Casing classifier (main.c:145-152)                                      *)
(***************************************************************************)
get_casing(s) ==
    LET caps == Cardinality({i \in 1..Len(s) : isupper(s[i])})
    IN  IF caps = 0 THEN 0
        ELSE IF caps = Len(s) THEN 2
        ELSE IF caps = 1 /\ isupper(s[1]) THEN 1
        ELSE 3

(***************************************************************************)
(* Bigram model (entropy.h part of core_defs.h:626-658).  counts and       *)
(* totals are kept sparse: a pair or byte outside the domain has count 0.  *)
(***************************************************************************)
ZeroModel == [counts |-> << >>, totals |-> << >>]

Get(f, k) == IF k \in DOMAIN f THEN f[k] ELSE 0

ModelCount(m, a, b) == Get(m.counts, <<a, b>>)
ModelTotal(m, a) == Get(m.totals, <<a>>)

\* the adjacent byte pairs of the texts, as <<text index, position>>
PairPositions(texts) ==
    UNION {{<<w, j>> : j \in 1..(Len(texts[w]) - 1)} : w \in 1..Len(texts)}

\* TrainAll with totals[cur] incremented for the last byte of a text too
TrainAll_TotalsEveryByte(m, texts) ==
    LET pos == PairPositions(texts)
        all == UNION {{<<w, j>> : j \in 1..Len(texts[w])} : w \in 1..Len(texts)}
        cur(q) == texts[q[1]][q[2]]
        next(q) == texts[q[1]][q[2] + 1]
    IN  [counts |-> [k \in (DOMAIN m.counts) \cup {<<cur(q), next(q)>> : q \in pos}
                        |-> Get(m.counts, k)
                              + Cardinality({q \in pos : <<cur(q), next(q)>> = k})],
         totals |-> [k \in (DOMAIN m.totals) \cup {<<cur(q)>> : q \in all}
                        |-> Get(m.totals, k)
                              + Cardinality({q \in all : <<cur(q)>> = k})]]

\* model_train_sequence applied to each of the texts in turn: one increment
\* of counts[cur][next] and of totals[cur] for every adjacent pair cur, next
TrainAll(m, texts) ==
    LET pos == PairPositions(texts)
        cur(q) == texts[q[1]][q[2]]
        next(q) == texts[q[1]][q[2] + 1]
    IN  [counts |-> [k \in (DOMAIN m.counts) \cup {<<cur(q), next(q)>> : q \in pos}
                        |-> Get(m.counts, k)
                              + Cardinality({q \in pos : <<cur(q), next(q)>> = k})],
         totals |-> [k \in (DOMAIN m.totals) \cup {<<cur(q)>> : q \in pos}
                        |-> Get(m.totals, k)
                              + Cardinality({q \in pos : <<cur(q)>> = k})]]

model_train_sequence(m, text) ==
    IF Len(text) < 2 THEN m ELSE TrainAll(m, <<text>>)

\* the surprise test reading counts[next][cur]
SurpriseAbove5_Swapped(m, cur, next) ==
    IF ModelTotal(m, cur) < 5 THEN FALSE
    ELSE 320 * ModelCount(m, next, cur) + 22 < 10 * ModelTotal(m, cur)

\* calculate_surprise(m, cur, next) > 5.0f.  -log2f(p) > 5 iff p < 1/32, and
\* (count + 0.1) / (total + 1) < 1/32 iff 320 * count + 22 < 10 * total; the
\* two sides of the integer inequality never differ by less than 2, so the
\* float rounding cannot change the outcome for the counts reached here.
SurpriseAbove5(m, cur, next) ==
    IF ModelTotal(m, cur) < 5 THEN FALSE
    ELSE 320 * ModelCount(m, cur, next) + 22 < 10 * ModelTotal(m, cur)

\* main.c:276-279: 20 passes over LOCKED_VOCAB
PRETRAIN_PASSES == 20

(***************************************************************************)
(* Registry (main.c:58-107).  seen_hashes is kept sparse: a slot outside   *)
(* the domain holds 0, the empty-slot sentinel.  vocab_bin is the byte     *)
(* content of nset_vocab.bin.                                              *)
(***************************************************************************)
SEEN_TABLE_SIZE == 4194304

Zero32 == <<0, 0>>

\* id % SEEN_TABLE_SIZE (SEEN_TABLE_SIZE is a multiple of 65536)
SlotOf(id) == ((id[1] % (SEEN_TABLE_SIZE \div 65536)) * 65536 + id[2]) % SEEN_TABLE_SIZE

\* seen_hashes[idx]
SlotAt(t, idx) == IF idx \in DOMAIN t THEN t[idx] ELSE Zero32

\* seen_hashes[idx] = id
SlotStore(t, idx, id) ==
    IF id = Zero32 THEN [j \in (DOMAIN t) \ {idx} |-> t[j]]
    ELSE (idx :> id) @@ t

\* while (seen_hashes[idx] != 0) idx = (idx + 1) % SEEN_TABLE_SIZE;
RECURSIVE ProbeEmpty(_, _)
ProbeEmpty(t, idx) ==
    IF SlotAt(t, idx) = Zero32 THEN idx
    ELSE ProbeEmpty(t, (idx + 1) % SEEN_TABLE_SIZE)

InsertId(t, id) == SlotStore(t, ProbeEmpty(t, SlotOf(id)), id)

RECURSIVE SeenFrom(_, _, _)
SeenFrom(t, id, idx) ==
    IF SlotAt(t, idx) = Zero32 THEN FALSE
    ELSE IF SlotAt(t, idx) = id THEN TRUE
    ELSE SeenFrom(t, id, (idx + 1) % SEEN_TABLE_SIZE)

has_seen_id(t, id) == SeenFrom(t, id, SlotOf(id))

\* the four bytes of a uint32_t as fwrite stores them (little-endian host)
IdBytes(id) == << id[2] % 256, id[2] \div 256, id[1] % 256, id[1] \div 256 >>
IdOfBytes(b) == << b[4] * 256 + b[3], b[2] * 256 + b[1] >>

\* (len > 255) ? 255 : (uint8_t)len
ClampLen(len) == IF len > 255 THEN 255 ELSE len

\* register_token with fwrite(text, 1, len, vocab_file) in place of l bytes
register_token_WholeText(r, id, text) ==
    IF has_seen_id(r.seen, id) THEN r
    ELSE [seen |-> InsertId(r.seen, id),
          file |-> r.file \o IdBytes(id) \o << ClampLen(Len(text)) >> \o text]

\* register_token(id, text, len) on the registry r = [seen, file]
register_token(r, id, text) ==
    IF has_seen_id(r.seen, id) THEN r
    ELSE [seen |-> InsertId(r.seen, id),
          file |-> r.file \o IdBytes(id) \o << ClampLen(Len(text)) >>
                          \o SubSeq(text, 1, ClampLen(Len(text)))]

\* load_registry: the read loop from byte position pos of the file f
RECURSIVE LoadFrom(_, _, _)
LoadFrom(t, f, pos) ==
    IF pos + 4 > Len(f) THEN t
    ELSE IF pos + 5 > Len(f) THEN t
    ELSE LoadFrom(InsertId(t, IdOfBytes(Slice(f, pos, 4))), f,
                  pos + 5 + f[pos + 5])

\* init_registry followed by load_registry
load_registry(f) == LoadFrom(<< >>, f, 0)

\* the ids the read loop of load_registry stores, in the order it stores
\* them, from byte position pos of the file f
RECURSIVE InsertedFrom(_, _)
InsertedFrom(f, pos) ==
    IF pos + 4 > Len(f) THEN << >>
    ELSE IF pos + 5 > Len(f) THEN << >>
    ELSE << IdOfBytes(Slice(f, pos, 4)) >> \o InsertedFrom(f, pos + 5 + f[pos + 5])

(***************************************************************************)
(* Tokens and the arena (main.c:30-53, 154-169).  The world w of a         *)
(* tokenization is [tokens, capacity, dropped, seen, file]; dropped counts *)
(* the calls of arena_push that returned at its capacity test.             *)
(***************************************************************************)
ZeroToken ==
    [root_id |-> Zero32, offset |-> 0, length |-> 0, type |-> 0, casing |-> 0,
     pre_space |-> 0, pre_break |-> 0, has_joiner |-> 0, depth |-> 0,
     has_semi |-> 0, has_comma |-> 0, has_paren |-> 0, has_star |-> 0,
     has_close |-> 0]

Bit(b) == IF b THEN 1 ELSE 0

\* while (next_pos < total_size && isspace(code[next_pos])) next_pos++;
RECURSIVE SkipSpace(_, _, _)
SkipSpace(src, pos, total_size) ==
    IF pos < total_size /\ isspace(src[pos + 1])
    THEN SkipSpace(src, pos + 1, total_size)
    ELSE pos

\* Absorb without its test for `)`
Absorb_NoClose(t, src, total_size) ==
    LET next_pos == SkipSpace(src, t.offset + t.length, total_size)
    IN  IF next_pos < total_size
        THEN LET next_char == src[next_pos + 1]
             IN  IF next_char = 59 THEN [t EXCEPT !.has_semi = 1]
                 ELSE IF next_char = 44 THEN [t EXCEPT !.has_comma = 1]
                 ELSE IF next_char = 40 THEN [t EXCEPT !.has_paren = 1]
                 ELSE IF next_char = 42 THEN [t EXCEPT !.has_star = 1]
                 ELSE t
        ELSE t

\* the look-ahead of arena_push: t with the bit of the next byte set
Absorb(t, src, total_size) ==
    LET next_pos == SkipSpace(src, t.offset + t.length, total_size)
    IN  IF next_pos < total_size
        THEN LET next_char == src[next_pos + 1]
             IN  IF next_char = 59 THEN [t EXCEPT !.has_semi = 1]
                 ELSE IF next_char = 44 THEN [t EXCEPT !.has_comma = 1]
                 ELSE IF next_char = 40 THEN [t EXCEPT !.has_paren = 1]
                 ELSE IF next_char = 41 THEN [t EXCEPT !.has_close = 1]
                 ELSE IF next_char = 42 THEN [t EXCEPT !.has_star = 1]
                 ELSE t
        ELSE t

arena_push(w, t, src, total_size) ==
    IF Len(w.tokens) >= w.capacity THEN [w EXCEPT !.dropped = @ + 1]
    ELSE LET r == register_token([seen |-> w.seen, file |-> w.file], t.root_id,
                                 Slice(src, t.offset, t.length))
         IN  [tokens |-> Append(w.tokens, Absorb(t, src, total_size)),
              capacity |-> w.capacity, dropped |-> w.dropped,
              seen |-> r.seen, file |-> r.file]

(***************************************************************************)
(* Identifier processor (main.c:174-257).  a is the call's arguments       *)
(* [src, offset, len, depth, pre_space, file_size].                        *)
(***************************************************************************)
\* the sub-token of n bytes starting at byte start of the identifier
SubToken(a, start, n, tokens_emitted) ==
    [ZeroToken EXCEPT
        !.root_id = murmur_hash(Slice(a.src, a.offset + start, n)),
        !.offset = a.offset + start,
        !.length = n,
        !.casing = get_casing(Slice(a.src, a.offset + start, n)),
        !.depth = a.depth % 8,
        !.pre_space = IF tokens_emitted = 0 THEN Bit(a.pre_space) ELSE 0]

\* the joiner bit set on the first token of the arena
SetJoiner_First(w) ==
    IF Len(w.tokens) = 0 THEN w
    ELSE [w EXCEPT !.tokens[1].has_joiner = 1]

\* arena->tokens[arena->count - 1].meta.has_joiner = 1
SetJoiner(w) ==
    IF Len(w.tokens) = 0 THEN w
    ELSE [w EXCEPT !.tokens[Len(w.tokens)].has_joiner = 1]

\* the hard split test: cur == '_'
HardSplit_Hyphen(cur) == cur = 45

HardSplit(cur) == cur = 95

\* the camel-case test with the two classes exchanged
CamelSplit_Swapped(a, i) ==
    isupper(a.src[a.offset + i + 1]) /\ islower(a.src[a.offset + i + 2])

\* the camel-case test at i | i+1
CamelSplit(a, i) ==
    islower(a.src[a.offset + i + 1]) /\ isupper(a.src[a.offset + i + 2])

\* the entropy test with a left fragment of at least 5 bytes
EntropySplit_Left5(m, a, i, start) ==
    LET left_len  == (i + 1) - start
        right_len == a.len - (i + 1)
    IN  /\ ~CamelSplit(a, i)
        /\ SurpriseAbove5(m, a.src[a.offset + i + 1], a.src[a.offset + i + 2])
        /\ \/ is_word_locked(Slice(a.src, a.offset + start, left_len))
           \/ left_len >= 5 /\ right_len >= 3

\* the entropy test without the test of the right remainder
EntropySplit_NoRight(m, a, i, start) ==
    LET left_len  == (i + 1) - start
    IN  /\ ~CamelSplit(a, i)
        /\ SurpriseAbove5(m, a.src[a.offset + i + 1], a.src[a.offset + i + 2])
        /\ \/ is_word_locked(Slice(a.src, a.offset + start, left_len))
           \/ left_len >= 4

\* the entropy test at i | i+1 with its guard
EntropySplit(m, a, i, start) ==
    LET left_len  == (i + 1) - start
        right_len == a.len - (i + 1)
    IN  /\ ~CamelSplit(a, i)
        /\ SurpriseAbove5(m, a.src[a.offset + i + 1], a.src[a.offset + i + 2])
        /\ \/ is_word_locked(Slice(a.src, a.offset + start, left_len))
           \/ left_len >= 4 /\ right_len >= 3

\* the splitter loop from position i, and the tail token after it
RECURSIVE IdentLoop(_, _, _, _, _, _)
IdentLoop(w, m, a, i, start, tokens_emitted) ==
    IF i >= a.len
    THEN IF start < a.len
         THEN arena_push(w, SubToken(a, start, a.len - start, tokens_emitted),
                         a.src, a.file_size)
         ELSE w
    ELSE IF HardSplit(a.src[a.offset + i + 1])
    THEN LET w1 == IF i > start
                   THEN arena_push(w, SubToken(a, start, i - start, tokens_emitted),
                                   a.src, a.file_size)
                   ELSE w
             e1 == IF i > start THEN tokens_emitted + 1 ELSE tokens_emitted
             w2 == IF e1 > 0 THEN SetJoiner(w1) ELSE w1
         IN  IdentLoop(w2, m, a, i + 1, i + 1, e1)
    ELSE IF i < a.len - 1 /\ (CamelSplit(a, i) \/ EntropySplit(m, a, i, start))
    THEN IdentLoop(arena_push(w, SubToken(a, start, (i + 1) - start, tokens_emitted),
                              a.src, a.file_size),
                   m, a, i + 1, i + 1, tokens_emitted + 1)
    ELSE IdentLoop(w, m, a, i + 1, start, tokens_emitted)

\* process_identifier: the world and the model after the call
process_identifier(w, m, a) ==
    LET word == Slice(a.src, a.offset, a.len)
    IN  IF is_word_locked(word)
        THEN [w |-> arena_push(w, [ZeroToken EXCEPT
                                      !.root_id = murmur_hash(word),
                                      !.offset = a.offset,
                                      !.length = a.len,
                                      !.depth = a.depth % 8,
                                      !.pre_space = Bit(a.pre_space)],
                               a.src, a.file_size),
              m |-> model_train_sequence(m, word)]
        ELSE [w |-> IdentLoop(w, model_train_sequence(m, word), a, 0, 0, 0),
              m |-> model_train_sequence(m, word)]

(***************************************************************************)
(* Leaf dispatch of main (main.c:304-367)                                  *)
(***************************************************************************)
\* strstr(type, "identifier") over the node types of the C grammar
IdentifierTypes ==
    {"identifier", "type_identifier", "field_identifier", "statement_identifier"}
IsIdentifierType(type) == type \in IdentifierTypes

\* strncmp(type, "preproc", 7) == 0
PreprocTypes == {"preproc_arg", "preproc_directive", "preproc_def"}
IsPreprocType(type) == type \in PreprocTypes

\* uint16_t len = end - start
LeafLen(node) == (node.end - node.start) % 65536

already_eaten(tokens, first_char) ==
    /\ Len(tokens) > 0
    /\ LET prev == tokens[Len(tokens)]
       IN  \/ first_char = 59 /\ prev.has_semi = 1
           \/ first_char = 44 /\ prev.has_comma = 1
           \/ first_char = 40 /\ prev.has_paren = 1
           \/ first_char = 41 /\ prev.has_close = 1
           \/ first_char = 42 /\ prev.has_star = 1

is_macro_blob(src, node) ==
    LeafLen(node) > 32 /\ ~is_word_locked(Slice(src, node.start, LeafLen(node)))

IsBlobLeaf(src, node) ==
    \/ node.type = "comment"
    \/ node.type = "string_literal"
    \/ IsPreprocType(node.type)
    \/ is_macro_blob(src, node)

pre_space(src, start) ==
    start > 0 /\ isspace(src[start]) /\ src[start] # 10
pre_break(src, start) ==
    start > 0 /\ src[start] = 10

\* a fragment carved inside the loop of the blob branch (main.c:337-343)
BlobFragment(src, start, sub_start, sub_len, depth) ==
    [ZeroToken EXCEPT
        !.root_id = murmur_hash(Slice(src, start + sub_start, sub_len)),
        !.offset = start + sub_start,
        !.length = sub_len,
        !.depth = (depth % 7) % 8,
        !.type = 1]

\* the fragment after the loop (main.c:348-354)
BlobTail(src, start, sub_start, len) ==
    [ZeroToken EXCEPT
        !.root_id = murmur_hash(Slice(src, start + sub_start, len - sub_start)),
        !.offset = start + sub_start,
        !.length = len - sub_start,
        !.type = 1]

RECURSIVE BlobLoop(_, _, _, _, _, _, _, _)
BlobLoop(w, src, start, len, depth, file_size, i, sub_start) ==
    IF i >= len
    THEN IF sub_start < len
         THEN arena_push(w, BlobTail(src, start, sub_start, len), src, file_size)
         ELSE w
    ELSE IF isspace(src[start + i + 1]) \/ ispunct(src[start + i + 1])
    THEN BlobLoop(IF i > sub_start
                  THEN arena_push(w, BlobFragment(src, start, sub_start,
                                                  i - sub_start, depth),
                                  src, file_size)
                  ELSE w,
                  src, start, len, depth, file_size, i + 1, i + 1)
    ELSE BlobLoop(w, src, start, len, depth, file_size, i + 1, sub_start)

\* the token of the default branch (main.c:357-363)
DefaultToken(src, node, depth) ==
    [ZeroToken EXCEPT
        !.root_id = murmur_hash(Slice(src, node.start, LeafLen(node))),
        !.offset = node.start,
        !.length = LeafLen(node),
        !.depth = (depth % 7) % 8,
        !.pre_space = Bit(pre_space(src, node.start)),
        !.pre_break = Bit(pre_break(src, node.start)),
        !.type = IF isdigit(src[node.start + 1]) THEN 2 ELSE 0]

\* the arguments main passes to process_identifier (main.c:329)
IdentArgs(src, node, depth) ==
    [src |-> src, offset |-> node.start, len |-> LeafLen(node),
     depth |-> depth % 7, pre_space |-> pre_space(src, node.start),
     file_size |-> Len(src)]

(***************************************************************************)
(* Parse tree and cursor (the tree-sitter calls of main.c:298-375).  A     *)
(* tree is the pre-order sequence of its nodes [level, start, end, type];  *)
(* the cursor is an index into it.                                         *)
(***************************************************************************)
Node(level, start, end, type) ==
    [level |-> level, start |-> start, end |-> end, type |-> type]

\* ts_tree_cursor_goto_first_child succeeds / ts_node_child_count(node) > 0
HasChild(ns, c) == c < Len(ns) /\ ns[c + 1].level = ns[c].level + 1

SetMin(S) == CHOOSE x \in S : \A y \in S : x <= y
SetMax(S) == CHOOSE x \in S : \A y \in S : x >= y

\* the node ts_tree_cursor_goto_next_sibling moves to, 0 if it fails
NextSibling(ns, c) ==
    LET later == {j \in (c + 1)..Len(ns) : ns[j].level <= ns[c].level}
    IN  IF later = {} THEN 0
        ELSE IF ns[SetMin(later)].level = ns[c].level THEN SetMin(later)
        ELSE 0

\* the node ts_tree_cursor_goto_parent moves to, 0 if it fails
Parent(ns, c) ==
    IF ns[c].level = 0 THEN 0
    ELSE SetMax({j \in 1..(c - 1) : ns[j].level = ns[c].level - 1})

\* do { if (!goto_parent) goto done; depth--; } while (!goto_next_sibling);
RECURSIVE Ascend(_, _, _)
Ascend(ns, c, d) ==
    IF Parent(ns, c) = 0 THEN [cursor |-> c, depth |-> d, done |-> TRUE]
    ELSE IF NextSibling(ns, Parent(ns, c)) # 0
    THEN [cursor |-> NextSibling(ns, Parent(ns, c)), depth |-> d - 1, done |-> FALSE]
    ELSE Ascend(ns, Parent(ns, c), d - 1)

\* Advance without the depth++ of the descent
Advance_NoDescentCount(ns, c, d) ==
    IF HasChild(ns, c) THEN [cursor |-> c + 1, depth |-> d, done |-> FALSE]
    ELSE IF NextSibling(ns, c) # 0
    THEN [cursor |-> NextSibling(ns, c), depth |-> d, done |-> FALSE]
    ELSE Ascend(ns, c, d)

\* the cursor move that ends one iteration of the loop (main.c:369-375)
Advance(ns, c, d) ==
    IF HasChild(ns, c) THEN [cursor |-> c + 1, depth |-> d + 1, done |-> FALSE]
    ELSE IF NextSibling(ns, c) # 0
    THEN [cursor |-> NextSibling(ns, c), depth |-> d, done |-> FALSE]
    ELSE Ascend(ns, c, d)

(***************************************************************************)
(* Inputs: a source buffer with its parse tree                             *)
(***************************************************************************)
MaxLen == 3
MaxDepth == 15

\* a b _ space ; *
Alphabet == {97, 66, 95, 32, 59, 42}
Codes == UNION {[1..n -> Alphabet] : n \in 1..MaxLen}

\* the ways to cut n bytes into consecutive segments, as segment lengths
RECURSIVE Compositions(_)
Compositions(n) ==
    IF n = 0 THEN {<< >>}
    ELSE UNION {{<<k>> \o r : r \in Compositions(n - k)} : k \in 1..n}

RECURSIVE SegStart(_, _)
SegStart(lens, j) == IF j = 1 THEN 0 ELSE SegStart(lens, j - 1) + lens[j - 1]

\* a segment is a leaf of some node type or a gap between leaves; "other" is
\* any node type the dispatch does not single out (number_literal,
\* primitive_type, string_content, punctuation, ...)
SegKinds == {"gap", "identifier", "comment", "other"}

IsIdentByte(c) == islower(c) \/ isupper(c) \/ isdigit(c) \/ c = 95

\* gaps are whitespace; identifier leaves are identifiers
KindFits(c, from, n, kind) ==
    CASE kind = "gap" -> \A i \in (from + 1)..(from + n) : isspace(c[i])
      [] kind = "identifier" ->
            /\ \A i \in (from + 1)..(from + n) : IsIdentByte(c[i])
            /\ ~isdigit(c[from + 1])
      [] OTHER -> TRUE

Segments(lens, kinds) ==
    [j \in 1..Len(lens) |->
        Node(1, SegStart(lens, j), SegStart(lens, j) + lens[j], kinds[j])]

IsLeafSeg(seg) == seg.type # "gap"

\* root with the leaves as its children
FlatTree(c, lens, kinds) ==
    << Node(0, 0, Len(c), "translation_unit") >>
        \o SelectSeq(Segments(lens, kinds), IsLeafSeg)

\* the kinds fit the segments and some segment is a leaf
KindsFit(c, lens, kinds) ==
    /\ \A j \in 1..Len(lens) : KindFits(c, SegStart(lens, j), lens[j], kinds[j])
    /\ \E j \in 1..Len(lens) : kinds[j] # "gap"

\* `ab c d 7`: an identifier, a comment and a number under a chain of d nodes
DepthLeaves(d) ==
    << Node(d, 0, 2, "identifier"), Node(d, 3, 6, "comment"), Node(d, 7, 8, "other") >>
ChainTree(d, leaves) ==
    [i \in 1..d |-> Node(i - 1, 0, leaves[Len(leaves)].end, "translation_unit")]
        \o leaves
DepthInputs ==
    {[code |-> <<97,98,32,99,32,100,32,55>>, nodes |-> ChainTree(d, DepthLeaves(d))] : d \in 1..MaxDepth}
        \cup {[code |-> <<97,98>>, nodes |-> << Node(0, 0, 2, type) >>] :
                type \in {"identifier", "comment", "other"}}

\* one identifier leaf under the root
SingleIdentifier(word) ==
    [code |-> word,
     nodes |-> << Node(0, 0, Len(word), "translation_unit"),
                  Node(1, 0, Len(word), "identifier") >>]

\* the word with its second byte in upper case
UpperSecond(word) ==
    [i \in 1..Len(word) |-> IF i = 2 /\ islower(word[i]) THEN word[i] - 32 ELSE word[i]]

VocabInputs ==
    {SingleIdentifier(LOCKED_VOCAB[i]) : i \in 1..Len(LOCKED_VOCAB)}
        \cup {SingleIdentifier(UpperSecond(LOCKED_VOCAB[i])) : i \in 1..Len(LOCKED_VOCAB)}

\* func(arg);
FuncArgInput ==
    [code |-> <<102,117,110,99,40,97,114,103,41,59>>,
     nodes |-> << Node(0, 0, 10, "translation_unit"),
                  Node(1, 0, 10, "expression_statement"),
                  Node(2, 0, 9, "call_expression"),
                  Node(3, 0, 4, "identifier"),
                  Node(3, 4, 9, "argument_list"),
                  Node(4, 4, 5, "other"),
                  Node(4, 5, 8, "identifier"),
                  Node(4, 8, 9, "other"),
                  Node(2, 9, 10, "other") >>]

\* myVariableName, my_var_name, contextswitch
CamelCode == <<109,121,86,97,114,105,97,98,108,101,78,97,109,101>>
SnakeCode == <<109,121,95,118,97,114,95,110,97,109,101>>
ContextSwitchCode == <<99,111,110,116,101,120,116,115,119,105,116,99,104>>

\* #define FOO 42 as one preprocessor leaf
DefineInput ==
    [code |-> <<35,100,101,102,105,110,101,32,70,79,79,32,52,50>>,
     nodes |-> << Node(0, 0, 14, "translation_unit"),
                  Node(1, 0, 14, "preproc_def") >>]

\* int x;
IntXInput ==
    [code |-> <<105,110,116,32,120,59>>,
     nodes |-> << Node(0, 0, 6, "translation_unit"),
                  Node(1, 0, 6, "declaration"),
                  Node(2, 0, 3, "other"),
                  Node(2, 4, 5, "identifier"),
                  Node(2, 5, 6, "other") >>]

\* x *= 2
MulAssignInput ==
    [code |-> <<120,32,42,61,32,50>>,
     nodes |-> << Node(0, 0, 6, "translation_unit"),
                  Node(1, 0, 6, "assignment_expression"),
                  Node(2, 0, 1, "identifier"),
                  Node(2, 2, 4, "other"),
                  Node(2, 5, 6, "other") >>]

\* f(" (x") with the string content as a leaf of its own
StringParenInput ==
    [code |-> <<102,40,34,32,40,120,34,41>>,
     nodes |-> << Node(0, 0, 8, "translation_unit"),
                  Node(1, 0, 8, "call_expression"),
                  Node(2, 0, 1, "identifier"),
                  Node(2, 1, 8, "argument_list"),
                  Node(3, 1, 2, "other"),
                  Node(3, 2, 7, "string_literal"),
                  Node(4, 2, 3, "other"),
                  Node(4, 3, 6, "other"),
                  Node(4, 6, 7, "other"),
                  Node(3, 7, 8, "other") >>]

\* size_t n; with size_t a primitive_type leaf
SizeTInput ==
    [code |-> <<115,105,122,101,95,116,32,110,59>>,
     nodes |-> << Node(0, 0, 9, "translation_unit"),
                  Node(1, 0, 9, "declaration"),
                  Node(2, 0, 6, "other"),
                  Node(2, 7, 8, "identifier"),
                  Node(2, 8, 9, "other") >>]

\* a comment leaf `ppkttia ppkttia`; murmur_hash of ppkttia is 0
ZeroHashWord == <<112,112,107,116,116,105,97>>
ZeroHashInput ==
    [code |-> ZeroHashWord \o <<32>> \o ZeroHashWord,
     nodes |-> << Node(0, 0, 15, "translation_unit"),
                  Node(1, 0, 15, "comment") >>]

\* a, b, 7, 9 and a comment c, over five lines: `a` / `b 7` / `9` / `c`
NewlineInput ==
    [code |-> <<97,10,98,32,55,10,57,10,99>>,
     nodes |-> << Node(0, 0, 9, "translation_unit"),
                  Node(1, 0, 1, "identifier"),
                  Node(1, 2, 3, "identifier"),
                  Node(1, 4, 5, "other"),
                  Node(1, 6, 7, "other"),
                  Node(1, 8, 9, "comment") >>]

\* x if_q: the identifier x, then the identifier if_q, whose locked prefix
\* `if` stands before the underscore
JoinerInput ==
    [code |-> <<120,32,105,102,95,113>>,
     nodes |-> << Node(0, 0, 6, "translation_unit"),
                  Node(1, 0, 1, "identifier"),
                  Node(1, 2, 6, "identifier") >>]

\* 33 bytes `a`, one byte more than the length guard of main.c:326, as an
\* identifier leaf and as a leaf of another type
LongWord == [i \in 1..33 |-> 97]
LongInputs ==
    {[code |-> LongWord,
      nodes |-> << Node(0, 0, 33, "translation_unit"), Node(1, 0, 33, type) >>] :
        type \in {"identifier", "other", "comment"}}

ScenarioInputs ==
    {FuncArgInput, SingleIdentifier(CamelCode), SingleIdentifier(SnakeCode),
     SingleIdentifier(ContextSwitchCode), DefineInput, IntXInput, MulAssignInput,
     StringParenInput, SizeTInput, ZeroHashInput, NewlineInput, JoinerInput}

FixedInputs == DepthInputs \cup VocabInputs \cup ScenarioInputs \cup LongInputs

(***************************************************************************)
(* The program: main (main.c:264-387)                                      *)
(***************************************************************************)
\* status of a process that has not ended, and of one ended by SIGSEGV as
\* the shell reports it (128 + 11)
RUNNING == -1
KILLED == 139

VARIABLES
    pc,            \* position in main: "start", "pretrain", "loop", "done", "exit"
    n,             \* pass counter n of the pre-training loop
    seen_hashes,   \* the in-memory id table
    vocab_bin,     \* content of nset_vocab.bin
    global_model,  \* the bigram model
    code,          \* the mapped source file
    nodes,         \* its parse tree
    arena,         \* [tokens, capacity, dropped]
    cursor,        \* the tree cursor
    depth,         \* the depth counter of the loop
    run,           \* registry runs: the number of the current run
    texts,         \* registry runs: the token texts a run registers
    todo,          \* registry runs: the texts the current run has yet to register
    status,        \* exit status of the process: RUNNING, 0, 1 or KILLED
    failure,       \* the call of the setup that failed, "none" if none did
    visits         \* <<node, depth>> of every childless node the loop has been at

vars == <<pc, n, seen_hashes, vocab_bin, global_model, code, nodes, arena,
          cursor, depth, run, texts, todo, status, failure, visits>>

regvars == <<run, texts, todo>>
mainvars == <<n, global_model, code, nodes, arena, cursor, depth,
              status, failure, visits>>

Init ==
    /\ pc = "start"
    /\ n = 0
    /\ seen_hashes = << >>
    /\ vocab_bin = << >>
    /\ global_model = ZeroModel
    /\ code = << >>
    /\ nodes = << >>
    /\ arena = [tokens |-> << >>, capacity |-> 0, dropped |-> 0]
    /\ cursor = 0
    /\ depth = 0
    /\ run = 1
    /\ texts = << >>
    /\ todo = << >>
    /\ status = RUNNING
    /\ failure = "none"
    /\ visits = << >>

setupvars == <<status, failure, visits>>

\* argc < 2: the usage line and return 1 (main.c:265-268)
Usage ==
    /\ pc = "start"
    /\ failure' = "argc"
    /\ status' = 1
    /\ pc' = "exit"
    /\ UNCHANGED <<n, seen_hashes, vocab_bin, global_model, code, nodes, arena,
                   cursor, depth, regvars, visits>>

\* init_registry, load_registry and the fopen of the log (main.c:270-274)
Startup ==
    /\ pc = "start"
    /\ seen_hashes' = load_registry(vocab_bin)
    /\ pc' = "pretrain"
    /\ UNCHANGED <<n, vocab_bin, global_model, code, nodes, arena, cursor, depth,
                   regvars, setupvars>>

\* init_registry, load_registry and a failing fopen of the log: return 1
\* (main.c:270-274)
VocabOpenFails ==
    /\ pc = "start"
    /\ seen_hashes' = load_registry(vocab_bin)
    /\ failure' = "fopen"
    /\ status' = 1
    /\ pc' = "exit"
    /\ UNCHANGED <<n, vocab_bin, global_model, code, nodes, arena, cursor, depth,
                   regvars, visits>>

\* one pass of the pre-training: the inner loop over LOCKED_VOCAB
\* (main.c:278-279)
PreTrain ==
    /\ pc = "pretrain"
    /\ n < PRETRAIN_PASSES
    /\ global_model' = TrainAll(global_model, LOCKED_VOCAB)
    /\ n' = n + 1
    /\ UNCHANGED <<pc, seen_hashes, vocab_bin, code, nodes, arena, cursor, depth,
                   regvars, setupvars>>

\* EnterLoop with an arena one token short of the source length
EnterLoop_ShortArena(inp) ==
    /\ code' = inp.code
    /\ nodes' = inp.nodes
    /\ arena' = [tokens |-> << >>, capacity |-> Len(inp.code) - 1, dropped |-> 0]
    /\ cursor' = 1
    /\ depth' = 0
    /\ pc' = "loop"
    /\ UNCHANGED <<n, seen_hashes, vocab_bin, global_model, regvars, status, visits>>

\* the state main enters its loop with (main.c:294-300)
EnterLoop(inp) ==
    /\ code' = inp.code
    /\ nodes' = inp.nodes
    /\ arena' = [tokens |-> << >>, capacity |-> Len(inp.code), dropped |-> 0]
    /\ cursor' = 1
    /\ depth' = 0
    /\ pc' = "loop"
    /\ UNCHANGED <<n, seen_hashes, vocab_bin, global_model, regvars, status, visits>>

\* open, mmap and parse of the source (main.c:281-292): the file is one of
\* the fixed inputs or any short buffer with any flat tree over it
OpenAndParse ==
    /\ pc = "pretrain"
    /\ n = PRETRAIN_PASSES
    /\ failure' = failure
    /\ \/ \E inp \in FixedInputs : EnterLoop(inp)
       \/ \E c \in Codes :
            \E lens \in Compositions(Len(c)) :
              \E kinds \in [1..Len(lens) -> SegKinds] :
                 /\ KindsFit(c, lens, kinds)
                 /\ EnterLoop([code |-> c, nodes |-> FlatTree(c, lens, kinds)])

\* a failing open of the source: perror and return 1 (main.c:281-285)
OpenFails ==
    /\ pc = "pretrain"
    /\ n = PRETRAIN_PASSES
    /\ failure' = "open"
    /\ status' = 1
    /\ pc' = "exit"
    /\ UNCHANGED <<n, seen_hashes, vocab_bin, global_model, code, nodes, arena,
                   cursor, depth, regvars, visits>>

\* the empty file: no bytes, a root without children
EmptyInput == [code |-> << >>, nodes |-> << Node(0, 0, 0, "translation_unit") >>]

\* a failing fstat or mmap of the source (main.c:286-287): neither result is
\* tested.  mmap of the empty file fails with length 0 and main goes on over
\* no bytes; with another length the reads through the failed mapping are
\* undefined: the process is killed, or it goes on over whatever it reads.
MapFails ==
    /\ pc = "pretrain"
    /\ n = PRETRAIN_PASSES
    /\ \/ failure' = "mmap" /\ EnterLoop(EmptyInput)
       \/ /\ failure' \in {"fstat", "mmap"}
          /\ \/ \E inp \in ScenarioInputs : EnterLoop(inp)
             \/ /\ status' = KILLED
                /\ pc' = "exit"
                /\ UNCHANGED <<n, seen_hashes, vocab_bin, global_model, code,
                               nodes, arena, cursor, depth, regvars, visits>>

World == [tokens |-> arena.tokens, capacity |-> arena.capacity,
          dropped |-> arena.dropped, seen |-> seen_hashes, file |-> vocab_bin]

\* the end of an iteration: the world w is stored and the cursor moves
\* (main.c:369-387); at done main prints its last line and returns 0
EndIteration(w) ==
    /\ arena' = [tokens |-> w.tokens, capacity |-> w.capacity, dropped |-> w.dropped]
    /\ seen_hashes' = w.seen
    /\ vocab_bin' = w.file
    /\ cursor' = Advance(nodes, cursor, depth).cursor
    /\ depth' = Advance(nodes, cursor, depth).depth
    /\ pc' = IF Advance(nodes, cursor, depth).done THEN "done" ELSE "loop"
    /\ status' = IF Advance(nodes, cursor, depth).done THEN 0 ELSE status
    /\ visits' = IF HasChild(nodes, cursor) THEN visits
                 ELSE Append(visits, <<cursor, depth>>)
    /\ UNCHANGED <<n, code, nodes, regvars, failure>>

AtLeaf == pc = "loop" /\ ~HasChild(nodes, cursor)

Dispatched ==
    /\ AtLeaf
    /\ LeafLen(nodes[cursor]) > 0
    /\ ~already_eaten(arena.tokens, code[nodes[cursor].start + 1])

\* an iteration on a node that has children
VisitInternal ==
    /\ pc = "loop"
    /\ HasChild(nodes, cursor)
    /\ EndIteration(World)
    /\ UNCHANGED global_model

\* an iteration on a leaf that is empty or already eaten
SkipLeaf ==
    /\ AtLeaf
    /\ ~Dispatched
    /\ EndIteration(World)
    /\ UNCHANGED global_model

\* an iteration on an identifier leaf (main.c:328-330)
IdentifierLeaf ==
    /\ Dispatched
    /\ IsIdentifierType(nodes[cursor].type)
    /\ LET r == process_identifier(World, global_model,
                                   IdentArgs(code, nodes[cursor], depth))
       IN  /\ EndIteration(r.w)
           /\ global_model' = r.m

\* an iteration on a blob-class leaf (main.c:331-355)
BlobLeaf ==
    /\ Dispatched
    /\ ~IsIdentifierType(nodes[cursor].type)
    /\ IsBlobLeaf(code, nodes[cursor])
    /\ EndIteration(BlobLoop(World, code, nodes[cursor].start,
                             LeafLen(nodes[cursor]), depth, Len(code), 0, 0))
    /\ UNCHANGED global_model

\* an iteration on any other leaf (main.c:356-365)
DefaultLeaf ==
    /\ Dispatched
    /\ ~IsIdentifierType(nodes[cursor].type)
    /\ ~IsBlobLeaf(code, nodes[cursor])
    /\ EndIteration(arena_push(World, DefaultToken(code, nodes[cursor], depth),
                               code, Len(code)))
    /\ UNCHANGED global_model

Next ==
    \/ Usage
    \/ Startup
    \/ VocabOpenFails
    \/ PreTrain
    \/ OpenFails
    \/ OpenAndParse
    \/ MapFails
    \/ VisitInternal
    \/ SkipLeaf
    \/ IdentifierLeaf
    \/ BlobLeaf
    \/ DefaultLeaf

Spec == Init /\ [][Next]_vars

(***************************************************************************)
(* Registry runs: what successive runs of main do to the registry.  A run  *)
(* is init_registry, load_registry and the fopen of the log (main.c:       *)
(* 270-274), one register_token for each token pushed (main.c:167) and the *)
(* fclose and free at done (main.c:379-380).  The id of a text is its      *)
(* murmur_hash (main.c:178, 203, 236, 250, 339, 350, 358).                 *)
(***************************************************************************)
MaxTokens == 3
MaxRuns == 2

\* a, A, b, samx, ppkttia: a and A have the same id, a and samx have ids that
\* are equal modulo SEEN_TABLE_SIZE, ppkttia has id 0
RegWords == {<<97>>, <<65>>, <<98>>, <<115,97,109,120>>, ZeroHashWord}

RegInit ==
    /\ pc = "start"
    /\ n = 0
    /\ seen_hashes = << >>
    /\ vocab_bin = << >>
    /\ global_model = ZeroModel
    /\ code = << >>
    /\ nodes = << >>
    /\ arena = [tokens |-> << >>, capacity |-> 0, dropped |-> 0]
    /\ cursor = 0
    /\ depth = 0
    /\ run = 1
    /\ texts \in UNION {[1..k -> RegWords] : k \in 1..MaxTokens}
    /\ todo = << >>
    /\ status = RUNNING
    /\ failure = "none"
    /\ visits = << >>

\* init_registry, load_registry, fopen of the log
RegStartup ==
    /\ pc = "start"
    /\ seen_hashes' = load_registry(vocab_bin)
    /\ todo' = texts
    /\ pc' = "registering"
    /\ UNCHANGED <<vocab_bin, run, texts, mainvars>>

\* the register_token call of one arena_push
RegisterNext ==
    /\ pc = "registering"
    /\ todo # << >>
    /\ LET r == register_token([seen |-> seen_hashes, file |-> vocab_bin],
                               murmur_hash(Head(todo)), Head(todo))
       IN  /\ seen_hashes' = r.seen
           /\ vocab_bin' = r.file
    /\ todo' = Tail(todo)
    /\ UNCHANGED <<pc, run, texts, mainvars>>

\* fclose(vocab_file), free(seen_hashes); the next run is a new process
RegTeardown ==
    /\ pc = "registering"
    /\ todo = << >>
    /\ run < MaxRuns
    /\ seen_hashes' = << >>
    /\ run' = run + 1
    /\ pc' = "start"
    /\ UNCHANGED <<vocab_bin, texts, todo, mainvars>>

RegNext == RegStartup \/ RegisterNext \/ RegTeardown

SpecRegistry == RegInit /\ [][RegNext]_vars

\* the ids of the records of the log, as load_registry reads them
LogIds == InsertedFrom(vocab_bin, 0)

\* C6: the second run appends nothing to the log, and the log never holds two
\* records with the same id.
C6_RegistryIdempotence ==
    [][ /\ run = 2 => vocab_bin' = vocab_bin
        /\ \A j, k \in 1..Len(LogIds') : LogIds'[j] = LogIds'[k] => j = k ]_vars

\* C7: during a run has_seen_id holds of every id that occurs in a record of
\* the log, and a record is appended only for an id has_seen_id did not hold of.
C7_RegistryMembership ==
    [][ /\ pc' = "registering" =>
            \A j \in 1..Len(LogIds') : has_seen_id(seen_hashes', LogIds'[j])
        /\ vocab_bin' # vocab_bin =>
            ~has_seen_id(seen_hashes, murmur_hash(Head(todo))) ]_vars

(***************************************************************************)
(* Properties of a tokenization                                            *)
(***************************************************************************)
Tokens == arena.tokens
TokenIdx == 1..Len(Tokens)

\* byte position p lies in the span [offset, offset + length) of t
Covers(t, p) == t.offset <= p /\ p < t.offset + t.length

HasAbsorbed(t) ==
    t.has_semi = 1 \/ t.has_comma = 1 \/ t.has_paren = 1 \/ t.has_close = 1
        \/ t.has_star = 1

\* the position of the byte the look-ahead of arena_push found after t
AbsorbedPos(t) == SkipSpace(code, t.offset + t.length, Len(code))

\* p is the byte some token of the arena has absorbed
IsAbsorbed(p) ==
    \E j \in TokenIdx : HasAbsorbed(Tokens[j]) /\ AbsorbedPos(Tokens[j]) = p

CoveringTokens(p) == {j \in TokenIdx : Covers(Tokens[j], p)}

LeafIdx == {j \in 1..Len(nodes) : ~HasChild(nodes, j)}

\* the leaves whose span holds the first byte of t
LeavesOf(t) ==
    {j \in LeafIdx : nodes[j].start <= t.offset /\ t.offset < nodes[j].end}

\* C1: at the end of a traversal, the byte whose punctuation arena_push
\* recorded on a token is covered by no token of the arena.
C1_AbsorbedByteNotEmitted ==
    pc = "done" =>
        \A j \in TokenIdx :
            HasAbsorbed(Tokens[j]) => CoveringTokens(AbsorbedPos(Tokens[j])) = {}

\* C2: at the end of a traversal no byte is covered by two tokens, no byte is
\* both emitted and absorbed, and every non-whitespace byte is either in the
\* span of one token or absorbed into a token's punctuation bit.
C2_Coverage ==
    pc = "done" =>
        \A p \in 0..(Len(code) - 1) :
            /\ Cardinality(CoveringTokens(p)) <= 1
            /\ ~(CoveringTokens(p) # {} /\ IsAbsorbed(p))
            /\ ~isspace(code[p + 1]) => (CoveringTokens(p) # {} \/ IsAbsorbed(p))

IsRunOf(inp) == code = inp.code /\ nodes = inp.nodes

IsVocabRun == \E k \in 1..Len(LOCKED_VOCAB) : nodes = SingleIdentifier(LOCKED_VOCAB[k]).nodes /\ code = LOCKED_VOCAB[k]

\* C3: for every entry w of LOCKED_VOCAB, is_word_locked(w) holds and
\* process_identifier on w emits exactly one token, whose span is all of w.
C3_LockedShortCircuit ==
    (pc = "done" /\ IsVocabRun) =>
        /\ is_word_locked(code)
        /\ Len(Tokens) = 1
        /\ Tokens[1].offset = 0
        /\ Tokens[1].length = Len(code)

\* C4: no token of the arena has a span that contains the byte `_`.
C4_NoUnderscoreInSpan ==
    \A j \in TokenIdx :
        \A p \in Tokens[j].offset..(Tokens[j].offset + Tokens[j].length - 1) :
            code[p + 1] # 95

\* the text of leaf k
LeafText(k) == Slice(code, nodes[k].start, LeafLen(nodes[k]))

\* token t was pushed by process_identifier
FromIdentifier(t) == \E k \in LeavesOf(t) : IsIdentifierType(nodes[k].type)

\* token t was pushed by the splitter of process_identifier
FromSplitter(t) ==
    \E k \in LeavesOf(t) :
        IsIdentifierType(nodes[k].type) /\ ~is_word_locked(LeafText(k))

\* token t was carved by the blob branch
FromBlob(t) ==
    \E k \in LeavesOf(t) :
        ~IsIdentifierType(nodes[k].type) /\ IsBlobLeaf(code, nodes[k])

\* C4 as amended: no token pushed by process_identifier or carved by the blob
\* branch has a span that contains the byte `_`.
C4_SplitBranchesNoUnderscore ==
    \A j \in TokenIdx :
        (FromIdentifier(Tokens[j]) \/ FromBlob(Tokens[j])) =>
            \A p \in Tokens[j].offset..(Tokens[j].offset + Tokens[j].length - 1) :
                code[p + 1] # 95

\* my_var_name is done: my and var carry the joiner bit
C4_Witness ==
    /\ pc = "done"
    /\ IsRunOf(SingleIdentifier(SnakeCode))
    /\ Len(Tokens) = 3
    /\ Tokens[1].has_joiner = 1 /\ Tokens[2].has_joiner = 1

\* C5: no token of the arena has a span in which a lowercase letter is
\* immediately followed by an uppercase letter.
C5_NoCamelPairInSpan ==
    \A j \in TokenIdx :
        \A p \in Tokens[j].offset..(Tokens[j].offset + Tokens[j].length - 2) :
            ~(islower(code[p + 1]) /\ isupper(code[p + 2]))

\* C5 as amended: no token pushed by the splitter of process_identifier (the
\* identifier is not a locked word) has a span in which a lowercase letter is
\* immediately followed by an uppercase letter.
C5_SplitterNoCamelPair ==
    \A j \in TokenIdx :
        FromSplitter(Tokens[j]) =>
            \A p \in Tokens[j].offset..(Tokens[j].offset + Tokens[j].length - 2) :
                ~(islower(code[p + 1]) /\ isupper(code[p + 2]))

\* an identifier that is not locked has been cut between a lowercase and an
\* uppercase letter
C5_Witness ==
    /\ pc = "done"
    /\ \E j \in TokenIdx :
          /\ j < Len(Tokens)
          /\ FromSplitter(Tokens[j])
          /\ Tokens[j + 1].offset = Tokens[j].offset + Tokens[j].length
          /\ islower(code[Tokens[j + 1].offset])
          /\ isupper(code[Tokens[j + 1].offset + 1])

\* C8: every token stores the depth of its leaf modulo 8.
C8_DepthMod8 ==
    \A j \in TokenIdx :
        \A k \in LeavesOf(Tokens[j]) : Tokens[j].depth = nodes[k].level % 8

SpanOf(t) == <<t.offset, t.length>>

\* C9: myVariableName yields exactly the three tokens my, Variable, Name with
\* casing lower, capitalized, capitalized and no joiner bit.
C9_CamelScenario ==
    (pc = "done" /\ IsRunOf(SingleIdentifier(CamelCode))) =>
        /\ Len(Tokens) = 3
        /\ SpanOf(Tokens[1]) = <<0, 2>> /\ Tokens[1].casing = 0
        /\ SpanOf(Tokens[2]) = <<2, 8>> /\ Tokens[2].casing = 1
        /\ SpanOf(Tokens[3]) = <<10, 4>> /\ Tokens[3].casing = 1
        /\ \A j \in TokenIdx : Tokens[j].has_joiner = 0

\* C9 as amended: myVariableName yields exactly the four tokens my, Vari, able,
\* Name with casing lower, capitalized, lower, capitalized and no joiner bit.
C9_CamelScenarioFour ==
    (pc = "done" /\ IsRunOf(SingleIdentifier(CamelCode))) =>
        /\ Len(Tokens) = 4
        /\ SpanOf(Tokens[1]) = <<0, 2>> /\ Tokens[1].casing = 0
        /\ SpanOf(Tokens[2]) = <<2, 4>> /\ Tokens[2].casing = 1
        /\ SpanOf(Tokens[3]) = <<6, 4>> /\ Tokens[3].casing = 0
        /\ SpanOf(Tokens[4]) = <<10, 4>> /\ Tokens[4].casing = 1
        /\ \A j \in TokenIdx : Tokens[j].has_joiner = 0

\* myVariableName is done and the entropy cut after Vari was made
C9_Witness ==
    /\ pc = "done"
    /\ IsRunOf(SingleIdentifier(CamelCode))
    /\ \E j \in TokenIdx : SpanOf(Tokens[j]) = <<2, 4>>

C11_ContextSwitchScenario ==
    (pc = "done" /\ IsRunOf(SingleIdentifier(ContextSwitchCode))) =>
        /\ SurpriseAbove5(global_model, 116, 115)
        /\ Len(Tokens) = 2
        /\ SpanOf(Tokens[1]) = <<0, 7>>
        /\ SpanOf(Tokens[2]) = <<7, 6>>

\* contextswitch is done and was cut after context
C11_Witness ==
    /\ pc = "done"
    /\ IsRunOf(SingleIdentifier(ContextSwitchCode))
    /\ Len(Tokens) >= 2
    /\ SpanOf(Tokens[1]) = <<0, 7>>

(***************************************************************************)
(* The segmenter on its own: process_identifier (main.c:174-257) called on *)
(* one identifier with the model as it is after any number of pre-training *)
(* passes.                                                                 *)
(***************************************************************************)
MaxWordLen == 4

\* ifxqqiqq, myVariableName, my_var_name, contextswitch and every short word
\* over i, f, q
SegWords ==
    UNION {[1..k -> {105, 102, 113}] : k \in 1..MaxWordLen}
        \cup {<<105,102,120,113,113,105,113,113>>, CamelCode, SnakeCode,
              ContextSwitchCode}

SegmentWord ==
    /\ pc = "pretrain"
    /\ \E word \in SegWords :
          LET r == process_identifier(
                       [tokens |-> << >>, capacity |-> Len(word), dropped |-> 0,
                        seen |-> seen_hashes, file |-> vocab_bin],
                       global_model,
                       [src |-> word, offset |-> 0, len |-> Len(word), depth |-> 0,
                        pre_space |-> FALSE, file_size |-> Len(word)])
          IN  /\ code' = word
              /\ nodes' = SingleIdentifier(word).nodes
              /\ arena' = [tokens |-> r.w.tokens, capacity |-> r.w.capacity,
                           dropped |-> r.w.dropped]
              /\ seen_hashes' = r.w.seen
              /\ vocab_bin' = r.w.file
              /\ global_model' = r.m
    /\ pc' = "segmented"
    /\ UNCHANGED <<n, cursor, depth, regvars, setupvars>>

SegmentNext == Startup \/ PreTrain \/ SegmentWord

SpecSegment == Init /\ [][SegmentNext]_vars

\* tokens j and j + 1 are the two sides of a cut made on the entropy signal:
\* no byte lies between them and the bytes at the cut are not a camel pair
IsEntropyCut(j) ==
    LET cut == Tokens[j].offset + Tokens[j].length
    IN  /\ Tokens[j + 1].offset = cut
        /\ ~(islower(code[cut]) /\ isupper(code[cut + 1]))

\* C12: at every cut process_identifier makes on the entropy signal, the left
\* fragment is a locked word, or it has at least 4 bytes and at least 3 bytes
\* of the identifier remain.
C12_EntropyGuard ==
    pc = "segmented" =>
        \A j \in 1..(Len(Tokens) - 1) :
            IsEntropyCut(j) =>
                \/ is_word_locked(Slice(code, Tokens[j].offset, Tokens[j].length))
                \/ /\ Tokens[j].length >= 4
                   /\ Len(code) - (Tokens[j].offset + Tokens[j].length) >= 3

\* an identifier cut on the entropy signal after a left fragment that is not
\* locked
C12_Witness ==
    /\ pc = "segmented"
    /\ \E j \in 1..(Len(Tokens) - 1) :
          /\ IsEntropyCut(j)
          /\ ~is_word_locked(Slice(code, Tokens[j].offset, Tokens[j].length))

\* C13: when the path argument is missing or the open, fstat or mmap of the
\* source or the fopen of the log fails, the process ends with a non-zero
\* status without entering the loop or reaching done; status 0 is returned
\* only at done.
C13_ExitStatus ==
    /\ failure # "none" => (pc = "exit" /\ status # RUNNING /\ status # 0)
    /\ status = 0 => pc = "done"

\* C14: the token that starts at the first byte of a leaf has pre_break = 1
\* exactly when the byte before the leaf is a newline, and pre_space = 1
\* exactly when that byte is whitespace other than a newline.
C14_WhitespaceFlags ==
    \A j \in TokenIdx :
        \A k \in LeafIdx :
            (LeafLen(nodes[k]) > 0 /\ Tokens[j].offset = nodes[k].start) =>
                LET before == IF nodes[k].start > 0 THEN code[nodes[k].start] ELSE 0
                IN  /\ Tokens[j].pre_break = Bit(before = 10)
                    /\ Tokens[j].pre_space = Bit(isspace(before) /\ before # 10)

\* C15: the arena never holds more tokens than its capacity, the source
\* length, and arena_push is never called on a full arena: no token is
\* dropped.
C15_ArenaCapacity ==
    /\ Len(arena.tokens) <= arena.capacity
    /\ arena.dropped = 0

\* a traversal has filled the arena to its capacity
C15_Witness ==
    /\ pc = "done"
    /\ arena.capacity > 1
    /\ Len(arena.tokens) = arena.capacity

(***************************************************************************)
(* The hash on its own: two spans that differ only in letter case are      *)
(* pushed in one run, each with murmur_hash of its bytes as root_id        *)
(* (main.c:139-143, 167).                                                  *)
(***************************************************************************)
MaxHashLen == 2

\* @ A Z [ ` a z {: the letters at the ends of both ranges and their
\* neighbours
HashStrings ==
    UNION {[1..k -> {64, 65, 90, 91, 96, 97, 122, 123}] : k \in 1..MaxHashLen}
        \cup {ZeroHashWord, [i \in 1..Len(ZeroHashWord) |-> ZeroHashWord[i] - 32]}

HashInit ==
    /\ pc = "start"
    /\ n = 0
    /\ seen_hashes = << >>
    /\ vocab_bin = << >>
    /\ global_model = ZeroModel
    /\ code = << >>
    /\ nodes = << >>
    /\ arena = [tokens |-> << >>, capacity |-> 0, dropped |-> 0]
    /\ cursor = 0
    /\ depth = 0
    /\ run = 1
    /\ \E s, t \in HashStrings :
          /\ LowerStr(s) = LowerStr(t)
          /\ texts = <<s, t>>
    /\ todo = << >>
    /\ status = RUNNING
    /\ failure = "none"
    /\ visits = << >>

HashNext == RegStartup \/ RegisterNext

SpecHash == HashInit /\ [][HashNext]_vars

\* C16: murmur_hash of a string is murmur_hash of its case-folded form, so
\* two spans that differ only in letter case have the same root_id and
\* leave one record in the log.
C16_HashCaseInsensitive ==
    /\ \A j \in 1..Len(texts) :
          murmur_hash(texts[j]) = murmur_hash(LowerStr(texts[j]))
    /\ murmur_hash(texts[1]) = murmur_hash(texts[2])
    /\ (pc = "registering" /\ todo = << >>) => Len(LogIds) = 1

(***************************************************************************)
(* The bigram model on its own: the pre-training passes and calls of       *)
(* model_train_sequence (core_defs.h:632-640) on the all-zero model and on *)
(* the pre-trained one.  texts holds the texts of the calls made; pc is     *)
(* "training" once a call was made.                                        *)
(***************************************************************************)
MaxCalls == 2
MaxTextLen == 2

\* texts over a, b
TrainTexts == UNION {[1..k -> {97, 98}] : k \in 0..MaxTextLen}

TrainCall ==
    /\ \/ pc = "pretrain" /\ n \in {0, PRETRAIN_PASSES}
       \/ pc = "training"
    /\ Len(texts) < MaxCalls
    /\ \E text \in TrainTexts :
          /\ global_model' = model_train_sequence(global_model, text)
          /\ texts' = Append(texts, text)
    /\ pc' = "training"
    /\ UNCHANGED <<n, seen_hashes, vocab_bin, code, nodes, arena, cursor,
                   depth, run, todo, setupvars>>

ModelNext == Startup \/ PreTrain \/ TrainCall

SpecModel == Init /\ [][ModelNext]_vars

\* the sum of f over the keys in S
RECURSIVE SumOver(_, _)
SumOver(f, S) ==
    IF S = {} THEN 0
    ELSE LET k == CHOOSE x \in S : TRUE
         IN  f[k] + SumOver(f, S \ {k})

\* the first bytes the model m has a count or a total for
FirstBytes(m) == {k[1] : k \in DOMAIN m.counts} \cup {k[1] : k \in DOMAIN m.totals}

\* the sum over b of counts[a][b]
RowSum(m, a) == SumOver(m.counts, {k \in DOMAIN m.counts : k[1] = a})

\* C17: for every first byte a the sum over b of counts[a][b] is totals[a],
\* from the all-zero model on, and a call of model_train_sequence with a text
\* of less than 2 bytes leaves the model unchanged.
C17_ModelInvariant ==
    /\ \A a \in FirstBytes(global_model) :
          RowSum(global_model, a) = ModelTotal(global_model, a)
    /\ [][ /\ \A a \in FirstBytes(global_model') :
                RowSum(global_model', a) = ModelTotal(global_model', a)
           /\ (texts' # texts /\ Len(texts'[Len(texts')]) < 2)
                => global_model' = global_model ]_vars

\* the pre-trained model after a call with a short text and a call with a
\* text of two bytes
C17_Witness ==
    /\ n = PRETRAIN_PASSES
    /\ \E j, k \in 1..Len(texts) : Len(texts[j]) < 2 /\ Len(texts[k]) >= 2
    /\ ModelTotal(global_model, 97) > 0

(***************************************************************************)
(* The cursor loop over trees of every shape (main.c:298-378).  A shape is *)
(* the pre-order sequence of the levels of the nodes; every childless node *)
(* spans one byte `a` of the source and is of a type the dispatch does not *)
(* single out.                                                             *)
(***************************************************************************)
MaxNodes == 5

RECURSIVE Shapes(_)
Shapes(k) ==
    IF k = 1 THEN {<<0>>}
    ELSE UNION {{Append(ls, l) : l \in 1..(ls[Len(ls)] + 1)} : ls \in Shapes(k - 1)}

ChildlessAt(ls, j) == j = Len(ls) \/ ls[j + 1] <= ls[j]

\* the number of childless nodes among the first j - 1 nodes
LeavesBefore(ls, j) == Cardinality({i \in 1..(j - 1) : ChildlessAt(ls, i)})

\* the last node of the subtree of node j
SubtreeEnd(ls, j) ==
    LET later == {i \in (j + 1)..Len(ls) : ls[i] <= ls[j]}
    IN  IF later = {} THEN Len(ls) ELSE SetMin(later) - 1

ShapeInput(ls) ==
    [code |-> [i \in 1..LeavesBefore(ls, Len(ls) + 1) |-> 97],
     nodes |-> [j \in 1..Len(ls) |->
                  Node(ls[j], LeavesBefore(ls, j),
                       LeavesBefore(ls, SubtreeEnd(ls, j) + 1),
                       IF j = 1 /\ ~ChildlessAt(ls, j) THEN "translation_unit"
                       ELSE "other")]]

\* open, mmap and parse of a source whose tree has one of the shapes
OpenShape ==
    /\ pc = "pretrain"
    /\ n = PRETRAIN_PASSES
    /\ failure' = failure
    /\ \E k \in 1..MaxNodes : \E ls \in Shapes(k) : EnterLoop(ShapeInput(ls))

WalkNext == Startup \/ PreTrain \/ OpenShape \/ VisitInternal \/ DefaultLeaf

\* main runs on: no step of it waits for anything
SpecWalk == Init /\ [][WalkNext]_vars /\ WF_vars(WalkNext)

\* the childless nodes in source order, each with its distance from the root
LeafVisits ==
    [i \in 1..Cardinality(LeafIdx) |->
        LET j == CHOOSE j \in LeafIdx : Cardinality({k \in LeafIdx : k < j}) = i - 1
        IN  <<j, nodes[j].level>>]

\* C18: the cursor loop terminates; when it does it has been at every
\* childless node exactly once, in source order, with the depth counter equal
\* to the distance of the node from the root; the counter is never negative.
C18_Traversal ==
    /\ <>(pc = "done")
    /\ [](depth >= 0)
    /\ [](pc = "done" => visits = LeafVisits)

\* a traversal is done that was at childless nodes of two depths
C18_Witness ==
    /\ pc = "done"
    /\ Len(visits) >= 3
    /\ \E j, k \in 1..Len(visits) : visits[j][2] > visits[k][2] /\ j < k

(***************************************************************************)
(* The framing of the log: runs of main that push spans of 1, 255, 256 and *)
(* 300 bytes, so that register_token clamps a length (main.c:101) and      *)
(* load_registry reads the records back in the next run (main.c:74-81).    *)
(***************************************************************************)
MaxRecords == 2

\* spans of 1, 255, 256 and 300 bytes of a or of 0xFF: a text byte 0xFF read
\* as a length would skip 255 bytes
FrameWords == {[i \in 1..len |-> b] : len \in {1, 255, 256, 300}, b \in {97, 255}}

FrameInit ==
    /\ pc = "start"
    /\ n = 0
    /\ seen_hashes = << >>
    /\ vocab_bin = << >>
    /\ global_model = ZeroModel
    /\ code = << >>
    /\ nodes = << >>
    /\ arena = [tokens |-> << >>, capacity |-> 0, dropped |-> 0]
    /\ cursor = 0
    /\ depth = 0
    /\ run = 1
    /\ texts \in UNION {[1..k -> FrameWords] : k \in 1..MaxRecords}
    /\ todo = << >>
    /\ status = RUNNING
    /\ failure = "none"
    /\ visits = << >>

SpecFraming == FrameInit /\ [][RegNext]_vars

\* the table after the stores of ids, in order
RECURSIVE InsertAll(_, _)
InsertAll(t, ids) ==
    IF ids = << >> THEN t ELSE InsertAll(InsertId(t, Head(ids)), Tail(ids))

\* C19: a record appended for a span is the 4 bytes of its id, one byte
\* l = min(len, 255) and the first l bytes of the span, and nothing else;
\* the ids load_registry stores from the log after the append are the ids it
\* stored from the log before it followed by the id just written; and the
\* table load_registry builds is the table of exactly those stores.
C19_LogFraming ==
    [][ /\ vocab_bin' # vocab_bin =>
            LET text == Head(todo)
                id   == murmur_hash(text)
                l    == IF Len(text) < 255 THEN Len(text) ELSE 255
            IN  /\ vocab_bin' = vocab_bin \o IdBytes(id) \o << l >> \o SubSeq(text, 1, l)
                /\ InsertedFrom(vocab_bin', 0) = Append(InsertedFrom(vocab_bin, 0), id)
        /\ (pc = "start" /\ pc' = "registering") =>
            seen_hashes' = InsertAll(<< >>, InsertedFrom(vocab_bin, 0)) ]_vars

\* the second run has loaded a log of two records whose first is the record
\* of a span longer than 255 bytes
C19_Witness ==
    /\ run = 2
    /\ pc = "registering"
    /\ Len(texts[1]) > 255
    /\ vocab_bin[5] = 255
    /\ Len(InsertedFrom(vocab_bin, 0)) = 2
    /\ InsertedFrom(vocab_bin, 0)[1] = murmur_hash(texts[1])
    /\ has_seen_id(seen_hashes, InsertedFrom(vocab_bin, 0)[2])

(***************************************************************************)
(* The blob branch (main.c:331-355) as seen in the arena at any point of   *)
(* a traversal.                                                            *)
(***************************************************************************)

\* C20: every token carved from a blob-class leaf, the one that runs to the
\* end of the leaf included, is a non-empty maximal run of bytes of the leaf
\* that are neither whitespace nor punctuation, has type 1 and stores the
\* depth value of its leaf.
C20_BlobFragments ==
    \A j \in TokenIdx :
        \A k \in LeavesOf(Tokens[j]) :
            (~IsIdentifierType(nodes[k].type) /\ IsBlobLeaf(code, nodes[k])) =>
                LET t    == Tokens[j]
                    last == t.offset + t.length
                IN  /\ t.length > 0
                    /\ t.type = 1
                    /\ last <= nodes[k].end
                    /\ \A p \in t.offset..(last - 1) :
                          ~isspace(code[p + 1]) /\ ~ispunct(code[p + 1])
                    /\ \/ t.offset = nodes[k].start
                       \/ isspace(code[t.offset]) \/ ispunct(code[t.offset])
                    /\ \/ last = nodes[k].end
                       \/ isspace(code[last + 1]) \/ ispunct(code[last + 1])
                    /\ t.depth = nodes[k].level % 8

(***************************************************************************)
(* The joiner bit (main.c:200-215) as seen in the arena at any point of a  *)
(* traversal.                                                              *)
(***************************************************************************)

\* C21: a token pushed by the splitter of process_identifier has has_joiner
\* = 1 exactly when the byte right after its span is a `_` of the same
\* identifier, and no other token of the arena has the bit.
C21_JoinerBit ==
    \A j \in TokenIdx :
        LET t    == Tokens[j]
            last == t.offset + t.length
        IN  IF FromSplitter(t)
            THEN t.has_joiner = 1 <=>
                    \E k \in LeavesOf(t) : last < nodes[k].end /\ code[last + 1] = 95
            ELSE t.has_joiner = 0

\* x if_q is done: x, a token of the earlier leaf, is without the bit, `if`
\* has it and q has not
C21_Witness ==
    /\ pc = "done"
    /\ IsRunOf(JoinerInput)
    /\ Len(Tokens) = 3
    /\ SpanOf(Tokens[1]) = <<0, 1>> /\ Tokens[1].has_joiner = 0
    /\ SpanOf(Tokens[2]) = <<2, 2>> /\ Tokens[2].has_joiner = 1
    /\ SpanOf(Tokens[3]) = <<5, 1>> /\ Tokens[3].has_joiner = 0

(***************************************************************************)
(* The length guard (main.c:5, 326) as seen in the arena.                  *)
(***************************************************************************)

\* C22: no token spans the whole of a leaf of more than 32 bytes.
C22_LengthGuard ==
    \A j \in TokenIdx :
        \A k \in LeavesOf(Tokens[j]) :
            LeafLen(nodes[k]) > 32 =>
                ~(/\ Tokens[j].offset = nodes[k].start
                  /\ Tokens[j].length = LeafLen(nodes[k]))

(***************************************************************************)
(* The skip test of the loop (main.c:312-324) at a leaf the iteration is   *)
(* about to skip.                                                          *)
(***************************************************************************)

\* C23: a non-empty leaf is skipped as already eaten only if it is the one
\* byte at the position the look-ahead of the last token of the arena found
\* its punctuation at.
C23_OneSkipPerAbsorption ==
    (/\ AtLeaf
     /\ LeafLen(nodes[cursor]) > 0
     /\ already_eaten(arena.tokens, code[nodes[cursor].start + 1])) =>
        /\ nodes[cursor].start = AbsorbedPos(Tokens[Len(Tokens)])
        /\ LeafLen(nodes[cursor]) = 1

====
